---- MODULE Spec2Model ----
(***************************************************************************)
(* Vehicle motion model of the driving game (class Vehicle of              *)
(* project/final/js/lighting.js): key handling, the per-frame update       *)
(* (steering, speed, kinematic integration, terrain following) and reset.  *)
(*                                                                         *)
(* The program computes in IEEE doubles; the model computes in fixed       *)
(* point.  Lengths and speeds are counted in twentieths (1 = 0.05), so     *)
(* that every length parameter of the constructor is a whole number;       *)
(* angles are counted in ten-thousandths of a radian (1 = 0.0001), which   *)
(* is also the epsilon of updateBasicPhysics.  A quotient or a product     *)
(* that is not a whole number of units is rounded to the nearest unit.     *)
(***************************************************************************)
EXTENDS Integers, FiniteSets, Sequences, TLC

VARIABLES
    speed,              \* this.speed
    steeringAngle,      \* this.steeringAngle
    rotation,           \* this.rotation, the heading the integrator uses
    meshPosition,       \* this.mesh.position, [x, y, z]
    meshRotationY,      \* this.mesh.rotation.y
    controls,           \* this.controls
    cameraMode,         \* this.cameraMode
    chassisBody,        \* this.chassisBody: "null" or "body"
    windowEnvironment,  \* whether window.environment is set
    lastMove,           \* [x, z]: moveX, moveZ of the latest integration step
    wheelRotationY,     \* this.wheelMeshes[0].rotation.y, the effective angle
    pickInfo,           \* outcome of the latest terrain query of adjustToTerrain
    frames,             \* number of budgeted frames rendered so far
    wheelRaycasts,      \* this.wheelRaycasts: per wheel, hit and suspension
    physics,            \* outcome of setupPhysics: "pending", "havok", "basic"
    mainStage,          \* main.js: "loading", "createScene" (awaited), "done"
    loadingScreen,      \* class of #loadingScreen: "shown" or "hidden"
    errorScreen,        \* class of #errorScreen: "shown" or "hidden"
    bootLog,            \* what start-up met: WebGL, canvas, engine, Havok, fault
    windowScene,        \* whether window.scene is set
    timers,             \* the setInterval pollers still running
    environment,        \* whether the global environment holds an Environment
    ui,                 \* whether the global ui (and window.ui) holds the UI
    lighting,           \* whether the global lighting holds a Lighting
    vehicle,            \* number of Vehicles the vehicle poller constructed
    windowVehicle,      \* whether window.vehicle is set
    materialsApplied,   \* whether lighting.applyVehicleMaterials has run
    uiElements,         \* texts of the speedometer and the gear indicator
    activeCameraPosition, \* scene.activeCamera.position, [x, y, z]
    terrain             \* latest call of getTerrainTypeAtPosition: [x, z, type]

\* Everything outside the Vehicle object: the page, its pollers and the UI.
pageVars == <<physics, mainStage, loadingScreen, errorScreen, bootLog,
              windowScene, timers, environment, ui, lighting, vehicle,
              windowVehicle, materialsApplied, uiElements,
              activeCameraPosition, terrain>>

vars == <<speed, steeringAngle, rotation, meshPosition, meshRotationY,
          controls, cameraMode, chassisBody, windowEnvironment, lastMove,
          wheelRotationY, pickInfo, frames, wheelRaycasts, pageVars>>

----------------------------------------------------------------------------
\* Vehicle characteristics set by the constructor, in the model's units:
\* maxSpeed 80, acceleration 0.5, deceleration 0.2, brakeForce 1.5,
\* wheelBase 4, wheelRadius 0.7, suspensionRestLength 0.6 and
\* suspensionTravel 0.3 in twentieths; suspensionStiffness 30; turnSpeed 0.05,
\* maxSteeringAngle Math.PI / 6 and the 0.0001 added to the steering angle
\* in updateBasicPhysics in ten-thousandths of a radian.
maxSpeed == 1600
acceleration == 10
deceleration == 4
brakeForce == 30
turnSpeed == 500
wheelBase == 80
wheelRadius == 14
suspensionRestLength == 12
suspensionStiffness == 30
suspensionTravel == 6
maxSteeringAngle == 5236
epsilon == 1

\* Bounds of the model: the half-width of the window in which mesh.position
\* is followed, the frame budget of Spec, and the ground heights a terrain
\* pick can return (2.0 in twentieths).
PosLimit == 12
MaxFrames == 2
GroundHeights == {40}

\* The distances at which the ray of a wheel meets the ground (1.0 in
\* twentieths): level ground under all four wheels.
RayDistances == {20}

----------------------------------------------------------------------------
\* Arithmetic helpers (Math.max, Math.min, Math.abs, Math.sign).
Max(a, b) == IF a >= b THEN a ELSE b

Min(a, b) == IF a <= b THEN a ELSE b

Abs(a) == IF a < 0 THEN -a ELSE a

Sign(a) == IF a > 0 THEN 1 ELSE IF a < 0 THEN -1 ELSE 0

\* n / d rounded to the nearest whole unit (d > 0), halves away from zero.
RoundDiv(n, d) ==
    IF n >= 0 THEN (2 * n + d) \div (2 * d) ELSE -((d - 2 * n) \div (2 * d))

----------------------------------------------------------------------------
\* Math.sin and Math.cos on angles in units of 0.0001 rad, result in units
\* of 0.0001: reduction of the argument to [-pi/2, pi/2], then the Taylor
\* polynomial up to x^9.
Pi == 31416

TwoPi == 62832

HalfPi == 15708

Unit == 10000

SinCore(x) ==
    LET y  == RoundDiv(x * x, Unit)
        p0 == Unit - RoundDiv(y, 72)
        p1 == Unit - RoundDiv(y * p0, 42 * Unit)
        p2 == Unit - RoundDiv(y * p1, 20 * Unit)
        p3 == Unit - RoundDiv(y * p2, 6 * Unit)
    IN  RoundDiv(x * p3, Unit)

\* The polynomial tabulated once over the first quadrant.
SinTable == [x \in 0..HalfPi |-> SinCore(x)]

Sin(a) ==
    LET m == a % TwoPi
    IN  IF m <= HalfPi THEN SinTable[m]
        ELSE IF m <= Pi THEN SinTable[Pi - m]
        ELSE IF m <= Pi + HalfPi THEN -SinTable[m - Pi]
        ELSE -SinTable[TwoPi - m]

Cos(a) == Sin(a + HalfPi)

----------------------------------------------------------------------------
\* Key identifiers the keyboard observable can deliver (event.key).
DrivingKeys == {"w", "s", "a", "d", " ", "Shift"}

ThrottleKeys == {"w", "s", " ", "Shift"}

SteeringKeys == {"a", "d"}

Keys == DrivingKeys \cup {"W", "c", "h", "ArrowUp"}

\* toLowerCase that leaves every key as it is.
toLowerCase_Identity(key) == key

\* String.prototype.toLowerCase on the key identifiers above.
toLowerCase(key) ==
    CASE key = "W" -> "w"
      [] key = "S" -> "s"
      [] key = "A" -> "a"
      [] key = "D" -> "d"
      [] key = "C" -> "c"
      [] key = "Shift" -> "shift"
      [] key = "ArrowUp" -> "arrowup"
      [] key = "ArrowDown" -> "arrowdown"
      [] key = "ArrowLeft" -> "arrowleft"
      [] key = "ArrowRight" -> "arrowright"
      [] OTHER -> key

\* toggleCamera that goes from chase straight back to follow.
toggleCamera_SkipsFirstPerson(mode) ==
    CASE mode = "follow" -> "chase"
      [] mode = "chase" -> "follow"
      [] mode = "firstPerson" -> "follow"
      [] OTHER -> mode

\* The mode toggleCamera switches to; a mode outside the cycle is kept.
toggleCamera(mode) ==
    CASE mode = "follow" -> "chase"
      [] mode = "chase" -> "firstPerson"
      [] mode = "firstPerson" -> "follow"
      [] OTHER -> mode

\* this.controls after handleKeyDown(key).
KeyDownControls(c, key) ==
    LET k == toLowerCase(key)
    IN  CASE k = "w" -> [c EXCEPT !.forward = TRUE]
          [] k = "s" -> [c EXCEPT !.backward = TRUE]
          [] k = "a" -> [c EXCEPT !.left = TRUE]
          [] k = "d" -> [c EXCEPT !.right = TRUE]
          [] k = " " -> [c EXCEPT !.brake = TRUE]
          [] k = "shift" -> [c EXCEPT !.handbrake = TRUE]
          [] k = "c" -> [c EXCEPT !.cameraToggle = TRUE]
          [] OTHER -> c

\* this.controls after handleKeyUp(key).
KeyUpControls(c, key) ==
    LET k == toLowerCase(key)
    IN  CASE k = "w" -> [c EXCEPT !.forward = FALSE]
          [] k = "s" -> [c EXCEPT !.backward = FALSE]
          [] k = "a" -> [c EXCEPT !.left = FALSE]
          [] k = "d" -> [c EXCEPT !.right = FALSE]
          [] k = " " -> [c EXCEPT !.brake = FALSE]
          [] k = "shift" -> [c EXCEPT !.handbrake = FALSE]
          [] k = "c" -> [c EXCEPT !.cameraToggle = FALSE]
          [] OTHER -> c

----------------------------------------------------------------------------
\* Variants of updateSteering with one statement changed.
updateSteering_NoRightClamp(angle, c) ==
    LET centred == IF ~c.left /\ ~c.right
                   THEN IF angle > 0 THEN Max(0, angle - turnSpeed \div 2)
                        ELSE IF angle < 0 THEN Min(0, angle + turnSpeed \div 2)
                        ELSE angle
                   ELSE angle
        afterLeft == IF c.left
                     THEN Max(-maxSteeringAngle, centred - turnSpeed)
                     ELSE centred
    IN  IF c.right THEN afterLeft + turnSpeed ELSE afterLeft

updateSteering_Overshoot(angle, c) ==
    LET centred == IF ~c.left /\ ~c.right
                   THEN IF angle > 0 THEN angle - turnSpeed \div 2
                        ELSE IF angle < 0 THEN angle + turnSpeed \div 2
                        ELSE angle
                   ELSE angle
        afterLeft == IF c.left
                     THEN Max(-maxSteeringAngle, centred - turnSpeed)
                     ELSE centred
    IN  IF c.right
        THEN Min(maxSteeringAngle, afterLeft + turnSpeed)
        ELSE afterLeft

updateSteering_RightBeforeLeft(angle, c) ==
    LET centred == IF ~c.left /\ ~c.right
                   THEN IF angle > 0 THEN Max(0, angle - turnSpeed \div 2)
                        ELSE IF angle < 0 THEN Min(0, angle + turnSpeed \div 2)
                        ELSE angle
                   ELSE angle
        afterRight == IF c.right
                      THEN Min(maxSteeringAngle, centred + turnSpeed)
                      ELSE centred
    IN  IF c.left
        THEN Max(-maxSteeringAngle, afterRight - turnSpeed)
        ELSE afterRight

\* this.steeringAngle after updateSteering(): the three statements run one
\* after the other, each on the result of the one before.
updateSteering(angle, c) ==
    LET centred == IF ~c.left /\ ~c.right
                   THEN IF angle > 0 THEN Max(0, angle - turnSpeed \div 2)
                        ELSE IF angle < 0 THEN Min(0, angle + turnSpeed \div 2)
                        ELSE angle
                   ELSE angle
        afterLeft == IF c.left
                     THEN Max(-maxSteeringAngle, centred - turnSpeed)
                     ELSE centred
    IN  IF c.right
        THEN Min(maxSteeringAngle, afterLeft + turnSpeed)
        ELSE afterLeft

\* acceleration * accelerationFactor, with
\* accelerationFactor = 1 - Math.min(0.7, Math.abs(speed) / maxSpeed).
accelerationStep(v) ==
    acceleration - Min((7 * acceleration) \div 10,
                       RoundDiv(acceleration * Abs(v), maxSpeed))

\* Variants of updateSpeed with one statement changed.
updateSpeed_NoReverseCap(v, c) ==
    IF c.brake
    THEN IF v > 0 THEN Max(0, v - brakeForce)
         ELSE IF v < 0 THEN Min(0, v + brakeForce)
         ELSE v
    ELSE IF c.forward
         THEN Min(maxSpeed, v + accelerationStep(v))
         ELSE IF c.backward
              THEN v - acceleration
              ELSE IF v > 0 THEN Max(0, v - deceleration)
                   ELSE IF v < 0 THEN Min(0, v + deceleration)
                   ELSE v

updateSpeed_Jitter(v, c) ==
    IF c.brake
    THEN IF v > 0 THEN Max(0, v - brakeForce)
         ELSE IF v < 0 THEN Min(0, v + brakeForce)
         ELSE v
    ELSE IF c.forward
         THEN Min(maxSpeed, v + accelerationStep(v))
         ELSE IF c.backward
              THEN Max(-(maxSpeed \div 2), v - acceleration)
              ELSE IF v > 0 THEN v - deceleration ELSE v + deceleration

updateSpeed_NoZeroClamp(v, c) ==
    IF c.brake
    THEN IF v > 0 THEN Max(0, v - brakeForce)
         ELSE IF v < 0 THEN Min(0, v + brakeForce)
         ELSE v
    ELSE IF c.forward
         THEN Min(maxSpeed, v + accelerationStep(v))
         ELSE IF c.backward
              THEN Max(-(maxSpeed \div 2), v - acceleration)
              ELSE IF v > 0 THEN v - deceleration
                   ELSE IF v < 0 THEN v + deceleration
                   ELSE v

updateSpeed_ThrottleBeforeBrake(v, c) ==
    IF c.forward
    THEN Min(maxSpeed, v + accelerationStep(v))
    ELSE IF c.brake
         THEN IF v > 0 THEN Max(0, v - brakeForce)
              ELSE IF v < 0 THEN Min(0, v + brakeForce)
              ELSE v
         ELSE IF c.backward
              THEN Max(-(maxSpeed \div 2), v - acceleration)
              ELSE IF v > 0 THEN Max(0, v - deceleration)
                   ELSE IF v < 0 THEN Min(0, v + deceleration)
                   ELSE v

updateSpeed_BackwardFirst(v, c) ==
    IF c.brake
    THEN IF v > 0 THEN Max(0, v - brakeForce)
         ELSE IF v < 0 THEN Min(0, v + brakeForce)
         ELSE v
    ELSE IF c.backward
         THEN Max(-(maxSpeed \div 2), v - acceleration)
         ELSE IF c.forward
              THEN Min(maxSpeed, v + accelerationStep(v))
              ELSE IF v > 0 THEN Max(0, v - deceleration)
                   ELSE IF v < 0 THEN Min(0, v + deceleration)
                   ELSE v

updateSpeed_ReverseByDeceleration(v, c) ==
    IF c.brake
    THEN IF v > 0 THEN Max(0, v - brakeForce)
         ELSE IF v < 0 THEN Min(0, v + brakeForce)
         ELSE v
    ELSE IF c.forward
         THEN Min(maxSpeed, v + accelerationStep(v))
         ELSE IF c.backward
              THEN Max(-(maxSpeed \div 2), v - deceleration)
              ELSE IF v > 0 THEN Max(0, v - deceleration)
                   ELSE IF v < 0 THEN Min(0, v + deceleration)
                   ELSE v

\* this.speed after updateSpeed().  The wheel bodies only receive damping
\* and torque there; they do not feed back into this.speed.
updateSpeed(v, c) ==
    IF c.brake
    THEN IF v > 0 THEN Max(0, v - brakeForce)
         ELSE IF v < 0 THEN Min(0, v + brakeForce)
         ELSE v
    ELSE IF c.forward
         THEN Min(maxSpeed, v + accelerationStep(v))
         ELSE IF c.backward
              THEN Max(-(maxSpeed \div 2), v - acceleration)
              ELSE IF v > 0 THEN Max(0, v - deceleration)
                   ELSE IF v < 0 THEN Min(0, v + deceleration)
                   ELSE v

\* angularVelocity of updateBasicPhysics: speed / turnRadius * sign(angle)
\* with turnRadius = wheelBase / sin(|angle| + 0.0001), i.e.
\* speed * sin(|angle| + 0.0001) / wheelBase * sign(angle).
angularVelocity(v, angle) ==
    RoundDiv(v * Sin(Abs(angle) + epsilon), wheelBase) * Sign(angle)

\* moveX with the cosine in place of the sine.
moveX_UsesCos(h, v) == RoundDiv(Cos(h) * v, Unit)

\* moveX and moveZ of updateBasicPhysics for heading h and speed v.
moveX(h, v) == RoundDiv(Sin(h) * v, Unit)

moveZ(h, v) == RoundDiv(Cos(h) * v, Unit)

\* A coordinate of mesh.position is followed inside [-PosLimit, PosLimit];
\* once it leaves the window it is held at the edge.
Clip(p) == Max(-PosLimit, Min(PosLimit, p))

\* speedFactor and effectiveSteeringAngle of updateSteering for the stored
\* angle and the speed v: angle * min(1, 1 - |v| / maxSpeed * 0.5).
speedFactor(v) == Min(Unit, Unit - RoundDiv(Abs(v) * Unit, 2 * maxSpeed))

effectiveSteeringAngle(angle, v) == RoundDiv(angle * speedFactor(v), Unit)

\* Environment.getHeightAtPosition: the picked height, 0 when the ray misses.
getHeightAtPosition(hit, pickedY) == IF hit THEN pickedY ELSE 0

\* adjustToTerrain that puts the vehicle origin on the ground itself.
adjustToTerrain_NoWheelRadius(y, env, hit, pickedY) ==
    IF env THEN getHeightAtPosition(hit, pickedY) ELSE y

\* mesh.position.y after adjustToTerrain().
adjustToTerrain(y, env, hit, pickedY) ==
    IF env THEN getHeightAtPosition(hit, pickedY) + wheelRadius ELSE y

\* One entry of wheelRaycasts after updateWheelRaycasts, for a ground d
\* below the wheel: pickWithRay hits within the length of the ray,
\* suspensionRestLength + suspensionTravel + wheelRadius.  The compression
\* is stored first and read back as oldCompression afterwards, so nothing
\* of the entry as it was before the call is read.
castWheelRay(d) ==
    IF d <= suspensionRestLength + suspensionTravel + wheelRadius
    THEN \* hit: compression, then velocity against the value just stored
         LET compression == Max(0, suspensionRestLength + wheelRadius - d)
             oldCompression == compression
         IN  [lastHitPoint |-> TRUE,
              suspension |-> [compression |-> compression,
                              velocity |-> compression - oldCompression,
                              force |-> suspensionStiffness * compression]]
    ELSE [lastHitPoint |-> FALSE,
          suspension |-> [compression |-> 0, velocity |-> 0, force |-> 0]]

\* The entry createWheelRaycast pushes.
NewRaycast ==
    [lastHitPoint |-> FALSE,
     suspension |-> [compression |-> 0, velocity |-> 0, force |-> 0]]

----------------------------------------------------------------------------
NoControls ==
    [forward |-> FALSE, backward |-> FALSE, left |-> FALSE, right |-> FALSE,
     brake |-> FALSE, handbrake |-> FALSE, cameraToggle |-> FALSE]

Origin == [x |-> 0, y |-> 0, z |-> 0]

\* No terrain query has been made yet.
NoPick == [queried |-> FALSE, hit |-> FALSE, height |-> 0]

\* The page around a running vehicle: start-up has finished without an
\* error, all pollers but the one of lighting that waits for window.vehicle
\* have stopped, setupPhysics has ended in setupBasicPhysics, and no file of
\* the game has assigned window.vehicle.
CameraStart == [x |-> 0, y |-> 100, z |-> -300]

NoTerrain == [x |-> 0, z |-> 0, type |-> "none"]

PageRunning ==
    /\ physics = "basic"
    /\ mainStage = "done"
    /\ loadingScreen = "hidden"
    /\ errorScreen = "hidden"
    /\ bootLog = [webgl |-> TRUE, canvas |-> TRUE, engine |-> TRUE,
                  havok |-> "unavailable", fault |-> FALSE]
    /\ windowScene = TRUE
    /\ timers = {"lighting.checkVehicle"}
    /\ environment = TRUE
    /\ ui = TRUE
    /\ lighting = TRUE
    /\ vehicle = 1
    /\ windowVehicle = FALSE
    /\ materialsApplied = FALSE
    /\ uiElements = [speedometer |-> 0, gearIndicator |-> "D"]
    /\ activeCameraPosition = CameraStart
    /\ terrain = NoTerrain

\* The vehicle after new Vehicle(scene) and init(), on the kinematic path
\* (no chassis body).  window.environment is set outside the class; both
\* cases are kept.
Init ==
    /\ speed = 0
    /\ steeringAngle = 0
    /\ rotation = 0
    /\ meshPosition = Origin
    /\ meshRotationY = 0
    /\ controls = NoControls
    /\ cameraMode = "follow"
    /\ chassisBody = "null"
    /\ windowEnvironment \in BOOLEAN
    /\ lastMove = [x |-> 0, z |-> 0]
    /\ wheelRotationY = 0
    /\ pickInfo = NoPick
    /\ frames = 0
    /\ wheelRaycasts = [i \in 1..4 |-> NewRaycast]
    /\ PageRunning

handleKeyDown(key) ==
    /\ controls' = KeyDownControls(controls, key)
    /\ cameraMode' = IF toLowerCase(key) = "c" /\ ~controls.cameraToggle
                     THEN toggleCamera(cameraMode)
                     ELSE cameraMode
    /\ UNCHANGED <<speed, steeringAngle, rotation, meshPosition,
                   meshRotationY, chassisBody, windowEnvironment, lastMove,
                   wheelRotationY, pickInfo, frames, wheelRaycasts, pageVars>>

handleKeyUp(key) ==
    /\ controls' = KeyUpControls(controls, key)
    /\ UNCHANGED <<speed, steeringAngle, rotation, meshPosition,
                   meshRotationY, cameraMode, chassisBody, windowEnvironment,
                   lastMove, wheelRotationY, pickInfo, frames, wheelRaycasts,
                   pageVars>>

\* updateBasicPhysics() that moves along the heading of the previous frame
\* and only then turns.
updateBasicPhysics_MoveBeforeTurn(v, angle, hit, pickedY) ==
    IF v # 0
    THEN \E h \in {rotation + angularVelocity(v, angle)} :
         \E mx \in {moveX(rotation, v)} : \E mz \in {moveZ(rotation, v)} :
             /\ rotation' = h
             /\ lastMove' = [x |-> mx, z |-> mz]
             /\ meshPosition' =
                    [x |-> Clip(meshPosition.x + mx),
                     y |-> adjustToTerrain(meshPosition.y, windowEnvironment,
                                           hit, pickedY),
                     z |-> Clip(meshPosition.z + mz)]
             /\ meshRotationY' = h
             /\ pickInfo' = IF windowEnvironment
                            THEN [queried |-> TRUE, hit |-> hit,
                                  height |-> getHeightAtPosition(hit, pickedY)]
                            ELSE pickInfo
    ELSE UNCHANGED <<rotation, lastMove, meshPosition, meshRotationY,
                     pickInfo>>

\* updateBasicPhysics() and, inside it, adjustToTerrain(), on the speed and
\* steering angle the same frame has just computed.  (The locals are bound
\* with \E over a singleton so that each is computed once.)
updateBasicPhysics(v, angle, hit, pickedY) ==
    IF v # 0
    THEN \E h \in {rotation + angularVelocity(v, angle)} :
         \E mx \in {moveX(h, v)} : \E mz \in {moveZ(h, v)} :
             /\ rotation' = h
             /\ lastMove' = [x |-> mx, z |-> mz]
             /\ meshPosition' =
                    [x |-> Clip(meshPosition.x + mx),
                     y |-> adjustToTerrain(meshPosition.y, windowEnvironment,
                                           hit, pickedY),
                     z |-> Clip(meshPosition.z + mz)]
             /\ meshRotationY' = h
             /\ pickInfo' = IF windowEnvironment
                            THEN [queried |-> TRUE, hit |-> hit,
                                  height |-> getHeightAtPosition(hit, pickedY)]
                            ELSE pickInfo
    ELSE UNCHANGED <<rotation, lastMove, meshPosition, meshRotationY,
                     pickInfo>>

\* updateWheelRaycasts(): every entry of wheelRaycasts casts its ray.  There
\* are four entries, or five after a Havok setup that failed when the first
\* wheel already had its raycast.
WheelCounts == {4, 5}

wheelRaycastsAfter ==
    [n \in WheelCounts |->
        [d \in RayDistances |-> [i \in 1..n |-> castWheelRay(d)]]]

updateWheelRaycasts ==
    \E d \in RayDistances :
        wheelRaycasts' = wheelRaycastsAfter[Len(wheelRaycasts)][d]

\* update() with updateSpeed() moved in front of updateSteering(), so that
\* the front wheels are turned by the speed of the same frame.
update_SpeedFirst ==
    \E v \in {updateSpeed(speed, controls)} :
    \E angle \in {updateSteering(steeringAngle, controls)} :
        /\ speed' = v
        /\ steeringAngle' = angle
        /\ wheelRotationY' = effectiveSteeringAngle(angle, v)
        /\ IF chassisBody = "null"
           THEN \E hit \in BOOLEAN : \E pickedY \in GroundHeights :
                    updateBasicPhysics(v, angle, hit, pickedY)
           ELSE UNCHANGED <<rotation, lastMove, meshPosition, meshRotationY,
                            pickInfo>>
        /\ updateWheelRaycasts
        /\ UNCHANGED <<controls, cameraMode, chassisBody, windowEnvironment,
                       pageVars>>

\* One frame: update().  Steering first, which also turns the front wheel
\* meshes by the effective angle, computed from the speed the previous
\* frame left; then speed; then the wheel raycasts (and suspension and wheel
\* spin, which touch wheel meshes only); then the kinematic integration
\* when there is no chassis body.
update ==
    \E angle \in {updateSteering(steeringAngle, controls)} :
    \E v \in {updateSpeed(speed, controls)} :
        /\ steeringAngle' = angle
        /\ wheelRotationY' = effectiveSteeringAngle(angle, speed)
        /\ speed' = v
        /\ IF chassisBody = "null"
           THEN \E hit \in BOOLEAN : \E pickedY \in GroundHeights :
                    updateBasicPhysics(v, angle, hit, pickedY)
           ELSE UNCHANGED <<rotation, lastMove, meshPosition, meshRotationY,
                            pickInfo>>
        /\ updateWheelRaycasts
        /\ UNCHANGED <<controls, cameraMode, chassisBody, windowEnvironment,
                       pageVars>>

Tick == update /\ UNCHANGED frames

BoundedTick == frames < MaxFrames /\ update /\ frames' = frames + 1

\* reset(): this.rotation is not among the fields it writes.
reset ==
    /\ meshPosition' = Origin
    /\ meshRotationY' = 0
    /\ speed' = 0
    /\ steeringAngle' = 0
    /\ controls' = [controls EXCEPT !.forward = FALSE, !.backward = FALSE,
                                    !.left = FALSE, !.right = FALSE,
                                    !.brake = FALSE, !.handbrake = FALSE]
    /\ UNCHANGED <<rotation, cameraMode, chassisBody, windowEnvironment,
                   lastMove, wheelRotationY, pickInfo, frames, wheelRaycasts,
                   pageVars>>

----------------------------------------------------------------------------
\* Every key, a budget of MaxFrames frames.
KeyDown == \E key \in Keys : handleKeyDown(key)

KeyUp == \E key \in Keys : handleKeyUp(key)

Next == KeyDown \/ KeyUp \/ BoundedTick \/ reset

Spec == Init /\ [][Next]_vars

\* Throttle, brake and handbrake keys only, any number of frames.
ThrottleKeyDown == \E key \in ThrottleKeys : handleKeyDown(key)

ThrottleKeyUp == \E key \in ThrottleKeys : handleKeyUp(key)

NextSpeed == ThrottleKeyDown \/ ThrottleKeyUp \/ Tick \/ reset

SpecSpeed == Init /\ [][NextSpeed]_vars

\* Steering keys only, any number of frames.
SteeringKeyDown == \E key \in SteeringKeys : handleKeyDown(key)

SteeringKeyUp == \E key \in SteeringKeys : handleKeyUp(key)

NextSteer == SteeringKeyDown \/ SteeringKeyUp \/ Tick \/ reset

SpecSteer == Init /\ [][NextSteer]_vars

\* Throttle and steering keys, a budget of MaxFrames frames, starting from
\* a vehicle that may have been driven before: steered to the heading h,
\* straightened, coasted to rest (the last moving frame at speed
\* deceleration) and put back with reset(), which restores position, speed,
\* steering angle and controls but leaves this.rotation at h.
Headings == {7854, 15708, 36652, -5236}

TurnKeys == {"w", "s", "a", "d"}

AfterDriveAndReset(h) ==
    /\ speed = 0
    /\ steeringAngle = 0
    /\ rotation = h
    /\ meshPosition = Origin
    /\ meshRotationY = 0
    /\ controls = NoControls
    /\ cameraMode = "follow"
    /\ chassisBody = "null"
    /\ windowEnvironment \in BOOLEAN
    /\ lastMove = [x |-> moveX(h, deceleration), z |-> moveZ(h, deceleration)]
    /\ wheelRotationY = 0
    /\ pickInfo \in IF windowEnvironment
                    THEN {[queried |-> TRUE, hit |-> TRUE, height |-> g] :
                              g \in GroundHeights}
                    ELSE {NoPick}
    /\ frames = 0
    /\ wheelRaycasts \in {[i \in 1..4 |-> castWheelRay(d)] :
                              d \in RayDistances}
    /\ PageRunning

InitTurn == Init \/ \E h \in Headings : AfterDriveAndReset(h)

TurnKeyDown == \E key \in TurnKeys : handleKeyDown(key)

TurnKeyUp == \E key \in TurnKeys : handleKeyUp(key)

NextTurn == TurnKeyDown \/ TurnKeyUp \/ BoundedTick \/ reset

SpecTurn == InitTurn /\ [][NextTurn]_vars

\* The map.  Every length of the classification is a multiple of 50 world
\* units, so map coordinates are counted in steps of 50 (MapUnit); distances
\* are compared by their squares, and the perpendicular distance to the
\* highway path by its square times the squared length of the path, so that
\* no root and no quotient is taken and the comparison is exact.
MapUnit == 50

cityCenter == [x |-> -500 \div MapUnit, z |-> -500 \div MapUnit]

highwayStart == [x |-> -500 \div MapUnit, z |-> 0]

countrysideCenter == [x |-> 500 \div MapUnit, z |-> 500 \div MapUnit]

highwayReach == 50 \div MapUnit

cityReach == 800 \div MapUnit

countrysideReach == 1000 \div MapUnit

DistanceSq(p, q) == (p.x - q.x) * (p.x - q.x) + (p.z - q.z) * (p.z - q.z)

\* distanceToHighway(x, z) < r.
distanceToHighwayBelow(p, r) ==
    LET len2 == DistanceSq(countrysideCenter, highwayStart)
        dot  == (p.x - highwayStart.x) * (countrysideCenter.x - highwayStart.x)
                + (p.z - highwayStart.z) * (countrysideCenter.z - highwayStart.z)
    IN  IF dot < 0 THEN DistanceSq(p, highwayStart) < r * r
        ELSE IF dot > len2 THEN DistanceSq(p, countrysideCenter) < r * r
        ELSE DistanceSq(p, highwayStart) * len2 - dot * dot < r * r * len2

getTerrainTypeAtPosition(p) ==
    IF distanceToHighwayBelow(p, highwayReach) THEN "highway"
    ELSE IF /\ DistanceSq(p, cityCenter) < DistanceSq(p, countrysideCenter)
            /\ DistanceSq(p, cityCenter) < cityReach * cityReach
         THEN "city"
    ELSE IF DistanceSq(p, countrysideCenter) < countrysideReach * countrysideReach THEN "countryside"
    ELSE "unknown"

\* The centre line of the mesh createRoads has createHighway build: the
\* segment from cityCenter to countrysideCenter.
onHighwayCentreLine(p) ==
    /\ (p.x - cityCenter.x) * (countrysideCenter.z - cityCenter.z)
           = (p.z - cityCenter.z) * (countrysideCenter.x - cityCenter.x)
    /\ cityCenter.x <= p.x /\ p.x <= countrysideCenter.x

\* The points the classification is asked about: a grid over the map, a
\* point every 100 world units from -500 to 500 in each direction.
MapGrid == {(100 * k - 500) \div MapUnit : k \in 0..10}

probeTerrain ==
    \E x \in MapGrid : \E z \in MapGrid :
        /\ terrain' = [x |-> x, z |-> z,
                       type |-> getTerrainTypeAtPosition([x |-> x, z |-> z])]
        /\ UNCHANGED <<speed, steeringAngle, rotation, meshPosition,
                       meshRotationY, controls, cameraMode, chassisBody,
                       windowEnvironment, lastMove, wheelRotationY, pickInfo,
                       frames, wheelRaycasts, physics, mainStage,
                       loadingScreen, errorScreen, bootLog, windowScene,
                       timers, environment, ui, lighting, vehicle,
                       windowVehicle, materialsApplied, uiElements,
                       activeCameraPosition>>

NextMap == probeTerrain

SpecMap == Init /\ [][NextMap]_vars

----------------------------------------------------------------------------
\* The vehicle on the page: physics setup, the frames once it is done, the
\* UI's own before-render callback and the reset key of main.js.
vehicleVars == <<speed, steeringAngle, rotation, meshPosition, meshRotationY,
                 controls, cameraMode, chassisBody, windowEnvironment,
                 lastMove, wheelRotationY, pickInfo, frames, wheelRaycasts>>

\* The factor of getSpeedKmh, and the resolution of the model's speeds:
\* getSpeedKmh is counted in twentieths of a km/h.
kmhPerUnit == 20

Twentieth == 20

getSpeedKmh_Signed(v) == v * kmhPerUnit

getSpeedKmh(v) == Abs(v) * kmhPerUnit

\* Math.floor of a quantity counted in twentieths.
Floor(x) == x \div Twentieth

\* UI.update(): the speedometer and the gear indicator; nothing is written
\* when window.vehicle is not there.
UIupdate ==
    /\ ui
    /\ uiElements' =
           IF windowVehicle
           THEN [speedometer |-> Floor(getSpeedKmh(speed)),
                 gearIndicator |-> IF getSpeedKmh(speed) = 0 THEN "N"
                                   ELSE IF speed > 0 THEN "D" ELSE "R"]
           ELSE uiElements
    /\ UNCHANGED <<vehicleVars, physics, mainStage, loadingScreen,
                   errorScreen, bootLog, windowScene, timers, environment,
                   ui, lighting, vehicle, windowVehicle, materialsApplied,
                   activeCameraPosition, terrain>>

\* How setupPhysics() can end: Havok set up; Havok missing or failed before
\* setupHavokVehiclePhysics created the chassis body (HavokPhysics(), the
\* plugin, enablePhysics, the shape, or the script failing to load); or a
\* step of setupHavokVehiclePhysics after the chassis body was stored threw,
\* before the first wheel was done or after it had been given its raycast.
SetupOutcomes ==
    {"havok", "failedBeforeChassis", "failedAfterChassis",
     "failedAfterFirstWheel"}

\* setupPhysics(): setupHavokVehiclePhysics stores this.chassisBody before
\* its later steps; setupBasicPhysics, the fallback of every catch, leaves
\* this.chassisBody as it finds it and gives each of the four wheels a
\* raycast, after those the failed Havok setup had already pushed.
setupPhysics ==
    \E outcome \in SetupOutcomes :
        /\ physics = "pending"
        /\ physics' = IF outcome = "havok" THEN "havok" ELSE "basic"
        /\ chassisBody' = IF outcome = "failedBeforeChassis"
                          THEN chassisBody ELSE "body"
        /\ wheelRaycasts' =
               [i \in 1..(IF outcome = "failedAfterFirstWheel" THEN 5 ELSE 4)
                    |-> NewRaycast]
        /\ UNCHANGED <<speed, steeringAngle, rotation, meshPosition,
                       meshRotationY, controls, cameraMode, windowEnvironment,
                       lastMove, wheelRotationY, pickInfo, frames, mainStage,
                       loadingScreen, errorScreen, bootLog, windowScene,
                       timers, environment, ui, lighting, vehicle,
                       windowVehicle, materialsApplied, uiElements,
                       activeCameraPosition, terrain>>

\* The key-down observer of addDebugUI: what a key-down of the reset key
\* leads to.
ResetKeys == {"r", "R"}

resetKeyOutcome(key, present) ==
    IF key = "r"
    THEN IF present THEN "vehicle.reset" ELSE "camera"
    ELSE "ignored"

onResetKey(key) ==
    \E outcome \in {resetKeyOutcome(key, windowVehicle)} :
        IF outcome = "vehicle.reset" THEN reset
        ELSE IF outcome = "camera"
             THEN /\ activeCameraPosition' = CameraStart
                  /\ UNCHANGED <<vehicleVars, physics, mainStage,
                                 loadingScreen, errorScreen, bootLog,
                                 windowScene, timers, environment, ui,
                                 lighting, vehicle, windowVehicle,
                                 materialsApplied, uiElements, terrain>>
             ELSE UNCHANGED vars

ResetKeyDown == \E key \in ResetKeys : onResetKey(key)

\* The free camera of createScene has its controls attached: the player
\* can fly it away from where it was created.
CameraPositions == {CameraStart, [x |-> 0, y |-> 50, z |-> 0]}

moveCamera ==
    \E p \in CameraPositions :
        /\ activeCameraPosition' = p
        /\ UNCHANGED <<vehicleVars, physics, mainStage, loadingScreen,
                       errorScreen, bootLog, windowScene, timers,
                       environment, ui, lighting, vehicle, windowVehicle,
                       materialsApplied, uiElements, terrain>>

\* init() sets up the controls and registers update() only after
\* setupPhysics() has returned.
UIKeys == {"w", "s"}

UIKeyDown == physics # "pending" /\ \E key \in UIKeys : handleKeyDown(key)

UIKeyUp == physics # "pending" /\ \E key \in UIKeys : handleKeyUp(key)

UITick == physics # "pending" /\ BoundedTick

\* A Vehicle just constructed, its physics not set up yet, on a page that
\* is running.  No statement of the scripts assigns window.vehicle: the
\* model follows both a page that has published the vehicle there and one
\* that has not.
InitUI ==
    /\ speed = 0
    /\ steeringAngle = 0
    /\ rotation = 0
    /\ meshPosition = Origin
    /\ meshRotationY = 0
    /\ controls = NoControls
    /\ cameraMode = "follow"
    /\ chassisBody = "null"
    /\ windowEnvironment = TRUE
    /\ lastMove = [x |-> 0, z |-> 0]
    /\ wheelRotationY = 0
    /\ pickInfo = NoPick
    /\ frames = 0
    /\ wheelRaycasts = [i \in 1..4 |-> NewRaycast]
    /\ physics = "pending"
    /\ mainStage = "done"
    /\ loadingScreen = "hidden"
    /\ errorScreen = "hidden"
    /\ bootLog = [webgl |-> TRUE, canvas |-> TRUE, engine |-> TRUE,
                  havok |-> "unavailable", fault |-> FALSE]
    /\ windowScene = TRUE
    /\ timers = {"lighting.checkVehicle"}
    /\ environment = TRUE
    /\ ui = TRUE
    /\ lighting = TRUE
    /\ vehicle = 1
    /\ windowVehicle \in BOOLEAN
    /\ materialsApplied = FALSE
    /\ uiElements = [speedometer |-> 0, gearIndicator |-> "D"]
    /\ activeCameraPosition = CameraStart
    /\ terrain = NoTerrain

NextUI ==
    \/ setupPhysics
    \/ UIKeyDown
    \/ UIKeyUp
    \/ UITick
    \/ UIupdate
    \/ ResetKeyDown
    \/ moveCamera

SpecUI == InitUI /\ [][NextUI]_vars

----------------------------------------------------------------------------
\* The page from its first event on: main.js and the four pollers that the
\* scripts start on DOMContentLoaded.
Pollers ==
    {"lighting.checkScene", "ui.checkScene", "environment.checkScene",
     "vehicle.checkScene"}

HavokOutcomes == {"unavailable", "ok", "fails"}

\* Whether createScene() rejects: its own try/catch takes a failure of the
\* Havok initialization, anything else that throws in it gets out.
createSceneThrows_HavokUncaught(havok, fault) == fault \/ havok = "fails"

createSceneThrows(havok, fault) == fault

\* showError(message), on a page that has the loading and error screens.
showError ==
    /\ loadingScreen' = "hidden"
    /\ errorScreen' = "shown"

\* The DOMContentLoaded event: the listeners of lighting.js and ui.js start
\* their pollers; the listener of main.js checks WebGL and calls initGame(),
\* which runs as far as its await of createScene().
DOMContentLoaded ==
    \E webgl \in BOOLEAN : \E canvas \in BOOLEAN : \E engineStarts \in BOOLEAN :
        /\ mainStage = "loading"
        /\ timers' = Pollers
        /\ bootLog' = [bootLog EXCEPT !.webgl = webgl, !.canvas = canvas,
                                      !.engine = engineStarts]
        /\ IF webgl /\ canvas /\ engineStarts
           THEN /\ mainStage' = "awaiting"
                /\ UNCHANGED <<loadingScreen, errorScreen>>
           ELSE /\ mainStage' = "done"
                /\ showError
        /\ UNCHANGED <<vehicleVars, physics, windowScene, environment, ui,
                       lighting, vehicle, windowVehicle, materialsApplied,
                       uiElements, activeCameraPosition, terrain>>

\* initGame() after createScene() has settled: window.scene, the render
\* loop and the loading screen hidden; or the catch and showError.
initGameResume ==
    \E havok \in HavokOutcomes : \E fault \in BOOLEAN :
        /\ mainStage = "awaiting"
        /\ mainStage' = "done"
        /\ bootLog' = [bootLog EXCEPT !.havok = havok, !.fault = fault]
        /\ IF createSceneThrows(havok, fault)
           THEN /\ showError
                /\ UNCHANGED windowScene
           ELSE /\ windowScene' = TRUE
                /\ loadingScreen' = "hidden"
                /\ UNCHANGED errorScreen
        /\ UNCHANGED <<vehicleVars, physics, timers, environment, ui,
                       lighting, vehicle, windowVehicle, materialsApplied,
                       uiElements, activeCameraPosition, terrain>>

\* environment poller: the Environment goes to the script's own variable.
environmentCheckScene ==
    /\ "environment.checkScene" \in timers
    /\ IF windowScene
       THEN /\ environment' = TRUE
            /\ timers' = timers \ {"environment.checkScene"}
       ELSE UNCHANGED <<environment, timers>>
    /\ UNCHANGED <<vehicleVars, physics, mainStage, loadingScreen,
                   errorScreen, bootLog, windowScene, ui, lighting, vehicle,
                   windowVehicle, materialsApplied, uiElements,
                   activeCameraPosition, terrain>>

\* UI poller.
uiCheckScene ==
    /\ "ui.checkScene" \in timers
    /\ IF windowScene
       THEN /\ ui' = TRUE
            /\ timers' = timers \ {"ui.checkScene"}
       ELSE UNCHANGED <<ui, timers>>
    /\ UNCHANGED <<vehicleVars, physics, mainStage, loadingScreen,
                   errorScreen, bootLog, windowScene, environment, lighting,
                   vehicle, windowVehicle, materialsApplied, uiElements,
                   activeCameraPosition, terrain>>

\* lighting poller: once the scene is there it starts a second poller that
\* waits for window.vehicle.
lightingCheckScene ==
    /\ "lighting.checkScene" \in timers
    /\ IF windowScene
       THEN /\ lighting' = TRUE
            /\ timers' = (timers \ {"lighting.checkScene"})
                             \cup {"lighting.checkVehicle"}
       ELSE UNCHANGED <<lighting, timers>>
    /\ UNCHANGED <<vehicleVars, physics, mainStage, loadingScreen,
                   errorScreen, bootLog, windowScene, environment, ui,
                   vehicle, windowVehicle, materialsApplied, uiElements,
                   activeCameraPosition, terrain>>

lightingCheckVehicle ==
    /\ "lighting.checkVehicle" \in timers
    /\ IF windowVehicle
       THEN /\ materialsApplied' = TRUE
            /\ timers' = timers \ {"lighting.checkVehicle"}
       ELSE UNCHANGED <<materialsApplied, timers>>
    /\ UNCHANGED <<vehicleVars, physics, mainStage, loadingScreen,
                   errorScreen, bootLog, windowScene, environment, ui,
                   lighting, vehicle, windowVehicle, uiElements,
                   activeCameraPosition, terrain>>

\* vehicle poller: once the scene is there it starts a second poller that
\* waits for window.environment and then constructs the Vehicle, into the
\* script's own variable.
vehicleCheckScene ==
    /\ "vehicle.checkScene" \in timers
    /\ IF windowScene
       THEN timers' = (timers \ {"vehicle.checkScene"})
                          \cup {"vehicle.checkEnvironment"}
       ELSE UNCHANGED timers
    /\ UNCHANGED <<vehicleVars, physics, mainStage, loadingScreen,
                   errorScreen, bootLog, windowScene, environment, ui,
                   lighting, vehicle, windowVehicle, materialsApplied,
                   uiElements, activeCameraPosition, terrain>>

vehicleCheckEnvironment ==
    /\ "vehicle.checkEnvironment" \in timers
    /\ IF windowEnvironment
       THEN /\ vehicle' = vehicle + 1
            /\ timers' = timers \ {"vehicle.checkEnvironment"}
       ELSE UNCHANGED <<vehicle, timers>>
    /\ UNCHANGED <<vehicleVars, physics, mainStage, loadingScreen,
                   errorScreen, bootLog, windowScene, environment, ui,
                   lighting, windowVehicle, materialsApplied, uiElements,
                   activeCameraPosition, terrain>>

\* The page before DOMContentLoaded.  No statement of the scripts assigns
\* window.environment or window.vehicle; the model follows both a page on
\* which window.environment is there and one on which it is not.
InitPage ==
    /\ speed = 0
    /\ steeringAngle = 0
    /\ rotation = 0
    /\ meshPosition = Origin
    /\ meshRotationY = 0
    /\ controls = NoControls
    /\ cameraMode = "follow"
    /\ chassisBody = "null"
    /\ windowEnvironment \in BOOLEAN
    /\ lastMove = [x |-> 0, z |-> 0]
    /\ wheelRotationY = 0
    /\ pickInfo = NoPick
    /\ frames = 0
    /\ wheelRaycasts = [i \in 1..4 |-> NewRaycast]
    /\ physics = "pending"
    /\ mainStage = "loading"
    /\ loadingScreen = "shown"
    /\ errorScreen = "hidden"
    /\ bootLog = [webgl |-> TRUE, canvas |-> TRUE, engine |-> TRUE,
                  havok |-> "unavailable", fault |-> FALSE]
    /\ windowScene = FALSE
    /\ timers = {}
    /\ environment = FALSE
    /\ ui = FALSE
    /\ lighting = FALSE
    /\ vehicle = 0
    /\ windowVehicle = FALSE
    /\ materialsApplied = FALSE
    /\ uiElements = [speedometer |-> 0, gearIndicator |-> "D"]
    /\ activeCameraPosition = CameraStart
    /\ terrain = NoTerrain

NextPage ==
    \/ DOMContentLoaded
    \/ initGameResume
    \/ environmentCheckScene
    \/ uiCheckScene
    \/ lightingCheckScene
    \/ lightingCheckVehicle
    \/ vehicleCheckScene
    \/ vehicleCheckEnvironment
    \/ UIupdate

SpecPage == InitPage /\ [][NextPage]_vars

\* Timers keep firing and a settled createScene() resumes initGame().
LivePage ==
    /\ SpecPage
    /\ WF_vars(initGameResume)
    /\ WF_vars(environmentCheckScene)
    /\ WF_vars(uiCheckScene)
    /\ WF_vars(lightingCheckScene)
    /\ WF_vars(lightingCheckVehicle)
    /\ WF_vars(vehicleCheckScene)
    /\ WF_vars(vehicleCheckEnvironment)
    /\ WF_vars(UIupdate)

\* The render loop calls update() every frame: a frame that changes the
\* vehicle is eventually rendered.
LiveSpeed == SpecSpeed /\ WF_vars(Tick)

LiveSteer == SpecSteer /\ WF_vars(Tick)

----------------------------------------------------------------------------
\* The six driving controls are all false.
AllClear ==
    /\ ~controls.forward /\ ~controls.backward
    /\ ~controls.left /\ ~controls.right
    /\ ~controls.brake /\ ~controls.handbrake

\* C1: in every reachable state the speed lies between the reverse cap,
\* half of maxSpeed, and the forward cap maxSpeed.
C1_SpeedWithinCaps == -(maxSpeed \div 2) <= speed /\ speed <= maxSpeed

C1_AtForwardCap == speed = maxSpeed /\ controls.forward

\* C2: in every reachable state the steering angle is at most
\* maxSteeringAngle in magnitude, also when left and right are held together.
C2_SteeringWithinLimit == Abs(steeringAngle) <= maxSteeringAngle

C2_AtLimitBothHeld ==
    /\ Abs(steeringAngle) = maxSteeringAngle
    /\ controls.left /\ controls.right

\* C3: after reset() the position is the origin, the heading the next
\* integration step uses is 0, speed and steering angle are 0 and the six
\* driving controls are false.
C3_ResetRestoresAll ==
    [][reset => /\ meshPosition' = Origin
                /\ rotation' = 0
                /\ speed' = 0
                /\ steeringAngle' = 0
                /\ AllClear']_vars

\* C4: a frame rendered at rest (speed 0, steering angle 0, no control held)
\* leaves speed and steering angle at 0 and position and heading unchanged,
\* so the vehicle is at rest again for the next frame.
C4_RestIsFixedPoint ==
    [][(update /\ AllClear /\ speed = 0 /\ steeringAngle = 0)
        => (/\ speed' = 0
            /\ steeringAngle' = 0
            /\ AllClear'
            /\ meshPosition' = meshPosition
            /\ rotation' = rotation
            /\ meshRotationY' = meshRotationY)]_vars

C4_AtRestAwayFromOrigin ==
    /\ AllClear /\ speed = 0 /\ steeringAngle = 0
    /\ meshPosition.z # 0

\* C5: with no control held, a frame takes deceleration off |speed|, stopping
\* at 0, never changes the sign of speed and keeps a speed of 0; if the
\* controls stay clear the speed becomes 0 and remains 0.
C5_CoastingDecays ==
    /\ [][(update /\ AllClear)
           => (/\ Abs(speed') = Max(0, Abs(speed) - deceleration)
               /\ speed * speed' >= 0
               /\ (speed # 0 => Abs(speed') < Abs(speed)))]_vars
    /\ (<>[]AllClear => <>[](speed = 0))

C5_CoastingFromCap == AllClear /\ speed = maxSpeed - deceleration

\* C6: on a frame with brake held, whatever forward, backward and handbrake
\* are, brakeForce is taken off |speed|, stopping at 0, without a change of
\* sign; if brake stays held the speed becomes 0 and remains 0.
C6_BrakePrecedence ==
    /\ [][(update /\ controls.brake)
           => (/\ Abs(speed') = Max(0, Abs(speed) - brakeForce)
               /\ speed * speed' >= 0)]_vars
    /\ (<>[]controls.brake => <>[](speed = 0))

C6_BrakingUnderThrottle ==
    /\ controls.brake /\ controls.forward /\ controls.handbrake
    /\ speed = maxSpeed - brakeForce

C8_ReverseAcceleration ==
    /\ [][(update /\ ~controls.brake /\ ~controls.forward
                  /\ controls.backward)
           => speed' = Max(-(maxSpeed \div 2), speed - acceleration)]_vars
    /\ (<>[](~controls.brake /\ ~controls.forward /\ controls.backward)
           => <>[](speed = -(maxSpeed \div 2)))

C8_AtReverseCap ==
    /\ ~controls.brake /\ ~controls.forward /\ controls.backward
    /\ speed = -(maxSpeed \div 2)

\* C9: on a frame with neither left nor right held, half of turnSpeed is
\* taken off |steeringAngle|, stopping at 0, without a change of sign; if
\* both stay clear the steering angle becomes 0 and remains 0.
C9_SteeringCentres ==
    /\ [][(update /\ ~controls.left /\ ~controls.right)
           => (/\ Abs(steeringAngle') =
                      Max(0, Abs(steeringAngle) - turnSpeed \div 2)
               /\ steeringAngle * steeringAngle' >= 0)]_vars
    /\ (<>[](~controls.left /\ ~controls.right) => <>[](steeringAngle = 0))

C9_CentringFromLimit ==
    /\ ~controls.left /\ ~controls.right
    /\ steeringAngle = maxSteeringAngle - turnSpeed \div 2

C11_IntegratorUsesEffectiveAngle ==
    [][(update /\ chassisBody = "null" /\ speed' # 0)
       => \/ rotation' = rotation
                 + RoundDiv(speed' * Sin(Abs(wheelRotationY') + epsilon),
                            wheelBase) * Sign(wheelRotationY')
          \/ rotation' = rotation
                 + angularVelocity(speed',
                       effectiveSteeringAngle(steeringAngle', speed'))]_vars

\* C12: on a frame of the kinematic path that leaves the steering angle at
\* exactly 0 and the speed v non-zero, the heading is unchanged and the
\* position advances by (v * sin(heading), v * cos(heading)).
C12_StraightLine ==
    [][(update /\ chassisBody = "null" /\ steeringAngle' = 0 /\ speed' # 0)
       => /\ rotation' = rotation
          /\ lastMove' = [x |-> RoundDiv(Sin(rotation) * speed', Unit),
                          z |-> RoundDiv(Cos(rotation) * speed', Unit)]
          /\ meshPosition'.x = Clip(meshPosition.x + lastMove'.x)
          /\ meshPosition'.z = Clip(meshPosition.z + lastMove'.z)]_vars

C12_StraightAtAnAngle ==
    /\ steeringAngle = 0 /\ speed = acceleration
    /\ rotation \in Headings /\ meshRotationY = rotation
    /\ lastMove.x > 0 /\ lastMove.z > 0
    /\ meshPosition.x = lastMove.x /\ meshPosition.z = lastMove.z

\* C13: on a frame of the kinematic path that leaves the speed and the
\* steering angle a non-zero, the heading first grows by
\* speed * sin(|a| + epsilon) / wheelBase * sign(a), and the position then
\* moves by (sin(heading) * speed, cos(heading) * speed) along the heading
\* already updated; with positive speed the heading decreases when a < 0
\* and increases when a > 0.
C13_TurnThenMove ==
    [][(update /\ chassisBody = "null" /\ steeringAngle' # 0 /\ speed' # 0)
       => /\ rotation' = rotation
                 + RoundDiv(speed' * Sin(Abs(steeringAngle') + epsilon),
                            wheelBase) * Sign(steeringAngle')
          /\ lastMove' = [x |-> RoundDiv(Sin(rotation') * speed', Unit),
                          z |-> RoundDiv(Cos(rotation') * speed', Unit)]
          /\ meshPosition'.x = Clip(meshPosition.x + lastMove'.x)
          /\ meshPosition'.z = Clip(meshPosition.z + lastMove'.z)
          /\ (speed' > 0 /\ steeringAngle' < 0 => rotation' < rotation)
          /\ (speed' > 0 /\ steeringAngle' > 0 => rotation' > rotation)]_vars

C13_LeftTurnForward ==
    /\ speed = 2 * acceleration /\ steeringAngle = -2 * turnSpeed
    /\ \E h \in Headings : rotation < h /\ rotation > h - turnSpeed
    /\ meshRotationY = rotation
    /\ lastMove.x # 0 /\ lastMove.z # 0

\* C14: on a frame whose terrain query does not hit the ground, the
\* elevation of the vehicle stays what it was.
C14_MissKeepsElevation ==
    [][(update /\ chassisBody = "null" /\ speed' # 0 /\ windowEnvironment
        /\ ~pickInfo'.hit)
       => meshPosition'.y = meshPosition.y]_vars

DrivingKeyControl ==
    {<<"w", "forward">>, <<"W", "forward">>, <<"s", "backward">>,
     <<"S", "backward">>, <<"a", "left">>, <<"A", "left">>,
     <<"d", "right">>, <<"D", "right">>, <<" ", "brake">>,
     <<"Shift", "handbrake">>}

\* Keys that neither handler has a case for.
UnrecognizedKeys == {"h", "ArrowUp", "ArrowDown", "ArrowLeft", "ArrowRight"}

ArrowKeyLetter ==
    {<<"ArrowUp", "w">>, <<"ArrowDown", "s">>, <<"ArrowLeft", "a">>,
     <<"ArrowRight", "d">>}

\* C17: in every reachable state a key-down or key-up of an arrow key
\* changes the controls exactly as that of its letter key does.
C17_ArrowsDrive ==
    \A al \in ArrowKeyLetter :
        /\ KeyDownControls(controls, al[1]) = KeyDownControls(controls, al[2])
        /\ KeyUpControls(controls, al[1]) = KeyUpControls(controls, al[2])

\* The camera modes in the order the C key goes through them.
CameraCycle ==
    [follow |-> "chase", chase |-> "firstPerson", firstPerson |-> "follow"]

\* C18: the camera mode is always follow, chase or firstPerson and three
\* toggles lead back to it; a C key-down with the key not already held
\* advances the mode one step in follow, chase, firstPerson, follow and
\* changes no driving control, speed or pose; nothing else changes the mode.
C18_CameraCycle ==
    /\ [](/\ cameraMode \in DOMAIN CameraCycle
           /\ toggleCamera(toggleCamera(toggleCamera(cameraMode)))
                  = cameraMode)
    /\ [][/\ (handleKeyDown("c") /\ ~controls.cameraToggle)
             => /\ cameraMode' = CameraCycle[cameraMode]
                /\ controls' = [controls EXCEPT !.cameraToggle = TRUE]
                /\ UNCHANGED <<speed, steeringAngle, rotation, meshPosition,
                               meshRotationY>>
          /\ cameraMode' # cameraMode
             => handleKeyDown("c") /\ ~controls.cameraToggle]_vars

C18_SecondPressHeld ==
    cameraMode = "firstPerson" /\ controls.cameraToggle /\ controls.forward

\* C19: a frame of the kinematic path with handbrake set, brake clear and
\* no throttle, from a non-zero speed, leaves a smaller |speed| than the
\* same frame with handbrake clear would.
C19_HandbrakeSlows ==
    [][(update /\ chassisBody = "null" /\ speed # 0 /\ controls.handbrake
        /\ ~controls.brake /\ ~controls.forward /\ ~controls.backward)
       => Abs(speed')
              < Abs(updateSpeed(speed,
                                [controls EXCEPT !.handbrake = FALSE]))]_vars

\* C20: in every frame the speed is updated first and the steering second,
\* so that the effective angle of the front wheels is scaled by the speed
\* of the same frame; then the integration runs once on the updated speed
\* and steering angle, then the terrain following.
C20_SpeedBeforeSteering ==
    [][update
       => /\ speed' = updateSpeed(speed, controls)
          /\ steeringAngle' = updateSteering(steeringAngle, controls)
          /\ wheelRotationY' = effectiveSteeringAngle(steeringAngle', speed')
          /\ (chassisBody = "null" /\ speed' # 0)
             => /\ rotation' = rotation
                       + angularVelocity(speed', steeringAngle')
                /\ lastMove' = [x |-> moveX(rotation', speed'),
                                z |-> moveZ(rotation', speed')]
                /\ windowEnvironment
                   => meshPosition'.y = pickInfo'.height + wheelRadius]_vars

\* C20 (amended): in every frame the steering is updated first, the front
\* wheels being turned by the effective angle scaled by the speed the
\* previous frame left, and the speed second, each once; then the
\* integration runs once on the speed and steering angle just updated, and
\* the terrain following runs inside it at the new position.
C20_SteeringBeforeSpeed ==
    [][update
       => /\ steeringAngle' = updateSteering(steeringAngle, controls)
          /\ wheelRotationY' = effectiveSteeringAngle(steeringAngle', speed)
          /\ speed' = updateSpeed(speed, controls)
          /\ (chassisBody = "null" /\ speed' # 0)
             => /\ rotation' = rotation
                       + angularVelocity(speed', steeringAngle')
                /\ lastMove' = [x |-> moveX(rotation', speed'),
                                z |-> moveZ(rotation', speed')]
                /\ windowEnvironment
                   => meshPosition'.y = pickInfo'.height + wheelRadius]_vars

C20_WheelsTurnedByPreviousSpeed ==
    /\ frames = 1 /\ speed = acceleration /\ steeringAngle = turnSpeed
    /\ wheelRotationY = turnSpeed
    /\ effectiveSteeringAngle(steeringAngle, speed) < wheelRotationY

\* C27: after a frame in which the ray of a wheel hits the ground, the
\* suspension velocity of that wheel is the compression of this frame minus
\* the compression the previous frame stored.
C27_VelocityIsChangeOfCompression ==
    [][update
       => \A i \in DOMAIN wheelRaycasts :
              wheelRaycasts'[i].lastHitPoint
              => wheelRaycasts'[i].suspension.velocity
                     = wheelRaycasts'[i].suspension.compression
                       - wheelRaycasts[i].suspension.compression]_vars

\* C28: on a frame with left and right both held the steering angle is
\* after the frame what it was before, at every angle within the limits,
\* the limits included.
C28_BothHeldCancel ==
    [][(update /\ controls.left /\ controls.right)
       => steeringAngle' = steeringAngle]_vars

\* C26: every point on the centre line of the highway createRoads builds,
\* from cityCenter to countrysideCenter, is classified as highway.
C26_HighwayIsHighway ==
    (terrain.type # "none" /\ onHighwayCentreLine(terrain))
        => terrain.type = "highway"

\* C21: on every UI update with a vehicle on window, the gear indicator
\* shows N exactly when the speed is 0, D exactly when it is positive and R
\* exactly when it is negative, and the speedometer shows the whole part of
\* |speed| * 20, which is never negative.
C21_GearAndSpeedometer ==
    [][(UIupdate /\ windowVehicle)
       => /\ (uiElements'.gearIndicator = "N") <=> (speed = 0)
          /\ (uiElements'.gearIndicator = "D") <=> (speed > 0)
          /\ (uiElements'.gearIndicator = "R") <=> (speed < 0)
          /\ uiElements'.speedometer = (Abs(speed) * kmhPerUnit) \div Twentieth
          /\ uiElements'.speedometer >= 0]_vars

C21_ReverseShown ==
    /\ windowVehicle
    /\ speed < 0
    /\ uiElements = [speedometer |-> (Abs(speed) * kmhPerUnit) \div Twentieth,
                     gearIndicator |-> "R"]

\* C22: a key-down of the reset key, lower case or upper case, calls
\* vehicle.reset() when window holds a vehicle and returns the active
\* camera to its starting position otherwise.
C22_EitherCaseResets ==
    \A key \in ResetKeys :
        resetKeyOutcome(key, windowVehicle)
            = IF windowVehicle THEN "vehicle.reset" ELSE "camera"

\* C24: whenever physics setup ends in the basic-physics fallback, the
\* vehicle has no chassis body, so that update() integrates the motion
\* itself.
C24_FallbackHasNoChassisBody ==
    physics = "basic" => chassisBody = "null"

\* C23: once main has published window.scene and the environment poller
\* has constructed the Environment, the vehicle poller eventually has
\* constructed the Vehicle, exactly once, and has stopped polling, and the
\* lighting has then seen it through window.vehicle and applied the
\* vehicle materials.
C23_VehicleBuiltAndObserved ==
    (windowScene /\ environment)
        ~> /\ vehicle = 1
           /\ timers \cap {"vehicle.checkScene", "vehicle.checkEnvironment"}
                  = {}
           /\ materialsApplied

\* C25: when the DOMContentLoaded handler and initGame() are through, the
\* loading screen is hidden whatever happened; the error screen is shown
\* exactly when WebGL is unsupported or initGame threw (no canvas, the
\* engine or the scene failing); a failed Havok initialization alone never
\* shows it.
C25_ScreensAfterStartup ==
    mainStage = "done"
        => /\ loadingScreen = "hidden"
           /\ (errorScreen = "shown")
                  <=> (\/ ~bootLog.webgl
                       \/ ~bootLog.canvas
                       \/ ~bootLog.engine
                       \/ bootLog.fault)
           /\ (/\ bootLog.havok = "fails"
               /\ bootLog.webgl /\ bootLog.canvas /\ bootLog.engine
               /\ ~bootLog.fault)
                  => errorScreen = "hidden"

C25_HavokFailedGameRuns ==
    /\ mainStage = "done"
    /\ bootLog.havok = "fails"
    /\ windowScene
    /\ loadingScreen = "hidden"
    /\ errorScreen = "hidden"

====
